---- MODULE Spec2Model ----
(***************************************************************************)
(* Instanced mesh/material pipeline (src/src/lib.rs, src/src/pipeline.rs). *)
(*                                                                         *)
(* One frame is Extract -> Prepare -> Queue -> Render -> Cleanup.  The     *)
(* simulation world (main_instances) and the asset registries change       *)
(* concurrently with the render stages.                                    *)
(***************************************************************************)
EXTENDS Integers, Sequences, FiniteSets, TLC

\* ------------------------------------------------------------------ bounds
\* Longest explicitly enumerated Instance Collection.
MaxLen == 2
\* Number of frames rendered.
MaxFrames == 2

\* ------------------------------------------------------- program constants
\* size_of::<Instance>(): one Vec3, three packed f32.
Vec3Size == 12
\* VertexFormat::Float32x3.size()
Float32x3Size == 12
\* shader_location of the per-instance attribute
InstanceShaderLocation == 10
\* wgpu::COPY_BUFFER_ALIGNMENT, used by create_buffer_with_data
CopyBufferAlignment == 4
\* Msaa::samples()
MsaaSamples == 4

\* --------------------------------------------------------- wide naturals
\* usize / u64 / u32 values are kept as two limbs, hi * 2^16 + lo, so that
\* values at and above 2^32 are representable.
LimbBase == 2^16

W(hi, lo) == [hi |-> hi, lo |-> lo]

WNat(n) == W(n \div LimbBase, n % LimbBase)

WAdd(a, b) == W(a.hi + b.hi + ((a.lo + b.lo) \div LimbBase), (a.lo + b.lo) % LimbBase)

WMulNat(a, k) == W(a.hi * k + ((a.lo * k) \div LimbBase), (a.lo * k) % LimbBase)

WIsZero(a) == a.hi = 0 /\ a.lo = 0

WLess(a, b) == a.hi < b.hi \/ (a.hi = b.hi /\ a.lo < b.lo)

WMax(a, b) == IF WLess(a, b) THEN b ELSE a

\* (a + k - 1) & !(k - 1) for a power of two k that divides LimbBase
WAlignUp(a, k) ==
    LET lo == ((a.lo + (k - 1)) \div k) * k
    IN  W(a.hi + (lo \div LimbBase), lo % LimbBase)

\* `x as u32` of a usize: the low 32 bits
AsU32(a) == W(a.hi % LimbBase, a.lo)

\* ------------------------------------------------------------- options
None == <<>>
Some(x) == <<x>>
IsSome(o) == o # <<>>
Unwrap(o) == o[1]

\* ------------------------------------------------------------ the world
Entities == {"e1", "e2"}
Views == {"v1", "v2"}

\* ExtractedView.hdr of each view
ViewHdr == [v \in Views |-> v = "v2"]

\* Handle<Mesh> and Handle<M> components of each entity
MeshHandle == [e \in Entities |-> IF e = "e1" THEN "cube" ELSE "tri"]
MaterialHandle == [e \in Entities |-> "mat"]
MeshHandles == {MeshHandle[e] : e \in Entities}

\* rangefinder.distance(&mesh_uniform.transform), per view and entity
ViewDepth == [v \in Views |-> [e \in Entities |-> IF e = "e1" THEN 1 ELSE 2]]

\* Instance { position }
Instance(p) == [position |-> p]

\* A Vec<Instance>: its leading records, followed by `pad` further zeroed
\* records (Instance is Zeroable).
Vec(head, pad) == [head |-> head, pad |-> pad]
VecLen(v) == WAdd(WNat(Len(v.head)), v.pad)

VecOf(n) == Vec([i \in 1..n |-> Instance(<<i - 1, 0, 0>>)], WNat(0))

\* A collection of 2^32 + MaxLen records.
WideVec == Vec(VecOf(MaxLen).head, W(LimbBase, 0))

InstanceCollections == {VecOf(0), VecOf(MaxLen), WideVec}

\* The collections the application gives each entity: e1 takes every one,
\* e2 is only ever given the MaxLen one.
CollectionsOf(e) == IF e = "e1" THEN InstanceCollections ELSE {VecOf(MaxLen)}

\* GpuMesh of each mesh asset once prepared
GpuMesh(h) ==
    IF h = "cube"
    THEN [vertex_buffer |-> "cube.vb", primitive_topology |-> "TriangleList",
          layout |-> {"POSITION", "NORMAL", "UV_0"},
          buffer_info |-> [tag |-> "Indexed", buffer |-> "cube.ib",
                           index_format |-> "Uint32", count |-> 36]]
    ELSE [vertex_buffer |-> "tri.vb", primitive_topology |-> "TriangleStrip",
          layout |-> {"POSITION"},
          buffer_info |-> [tag |-> "NonIndexed", buffer |-> "none",
                           index_format |-> "none", count |-> 3]]

AlphaMode(tag, threshold) == [tag |-> tag, threshold |-> threshold]

AlphaModes ==
    {AlphaMode(t, "na") : t \in {"Opaque", "Blend", "Premultiplied", "Add", "Multiply"}}
    \cup {AlphaMode("Mask", th) : th \in {"0.0", "0.5"}}

\* PreparedMaterial { key, properties: { alpha_mode, depth_bias } }
PreparedMaterial(alpha, key) ==
    [key |-> key, properties |-> [alpha_mode |-> alpha, depth_bias |-> 0]]

\* Prepared materials of the material type M: one per alpha mode with the
\* plain bind-group data, and one whose bind-group data makes M::specialize
\* bind NORMAL as a custom attribute.
PreparedMaterials ==
    {PreparedMaterial(a, "plain") : a \in AlphaModes}
    \cup {PreparedMaterial(AlphaMode("Opaque", "na"), "custom")}

VARIABLES
    main_instances,    \* simulation world: Instances component per entity
    instances,         \* render world: extracted Instances component
    instance_buffer,   \* render world: InstanceBuffer component
    render_meshes,     \* RenderAssets<Mesh>: the resident mesh handles
    render_materials,  \* RenderMaterials<M>: the prepared material, if resident
    phases,            \* per view: RenderPhase<Opaque3d/AlphaMask3d/Transparent3d>
    stage,             \* the stage that runs next
    frame,             \* number of the current frame
    panic,             \* payload of the unwrap() panic of the queue system
    drawn,             \* what the render pass recorded for each Phase Item
    snapshot,          \* history: main_instances as of this frame's Extract
    retry              \* history: per entity, skipped / requeued by the last Queue

vars == <<main_instances, instances, instance_buffer, render_meshes,
          render_materials, phases, stage, frame, panic, drawn, snapshot, retry>>

EmptyPhases == [v \in Views |-> [opaque |-> <<>>, alpha_mask |-> <<>>, transparent |-> <<>>]]

Init ==
    /\ main_instances = [e \in Entities |-> None]
    /\ instances = [e \in Entities |-> None]
    /\ instance_buffer = [e \in Entities |-> None]
    /\ render_meshes = {}
    /\ render_materials = None
    /\ phases = EmptyPhases
    /\ stage = "Extract"
    /\ frame = 0
    /\ panic = None
    /\ drawn = <<>>
    /\ snapshot = [e \in Entities |-> None]
    /\ retry = [e \in Entities |-> "none"]


\* ---------------------------------------------------------- Extraction
\* Mutant of extract_component: the clone comes out in reverse order.
extract_component_reversed(v) ==
    Some(Vec([i \in 1..Len(v.head) |-> v.head[Len(v.head) + 1 - i]], v.pad))

\* Instances::extract_component: Some(Instances(instances.0.clone()))
extract_component(v) ==
    Some(Vec([i \in 1..Len(v.head) |-> v.head[i]], v.pad))

\* The ExtractComponentPlugin::<Instances> system: every simulation-side
\* entity that carries Instances gets the extracted component inserted into
\* its render-side mirror; the other mirrors are left as they are.
ExtractInstances(main, render) ==
    [e \in Entities |->
        IF IsSome(main[e]) THEN extract_component(Unwrap(main[e])) ELSE render[e]]

\* --------------------------------------------------------- Preparation
\* Mutant of cast_slice: a record takes 16 bytes (a Vec3 padded like a Vec3A).
cast_slice_padded(v) == [len |-> WMulNat(VecLen(v), 16), data |-> v]

\* bytemuck::cast_slice(instances.as_slice()): the byte length of the slice
cast_slice(v) == [len |-> WMulNat(VecLen(v), Vec3Size), data |-> v]

\* RenderDevice::create_buffer_with_data: an empty slice gives a buffer of
\* size 0; otherwise the size is the byte length rounded up to
\* COPY_BUFFER_ALIGNMENT, and at least COPY_BUFFER_ALIGNMENT.
create_buffer_with_data(label, contents, usage) ==
    [label |-> label,
     size |-> IF WIsZero(contents.len) THEN WNat(0)
              ELSE WMax(WAlignUp(contents.len, CopyBufferAlignment),
                        WNat(CopyBufferAlignment)),
     contents |-> contents.data,
     usage |-> usage]

\* InstanceBuffer { buffer, length }, stamped with the frame that built it
InstanceBuffer(v, f) ==
    [buffer |-> create_buffer_with_data("instance data buffer", cast_slice(v),
                                        {"VERTEX", "COPY_DST"}),
     length |-> VecLen(v),
     built_in |-> f]

\* prepare_instance_buffers followed by the application of its commands
prepare_instance_buffers(insts, bufs, f) ==
    [e \in Entities |->
        IF IsSome(insts[e]) THEN Some(InstanceBuffer(Unwrap(insts[e]), f)) ELSE bufs[e]]

\* ------------------------------------------------ Pipeline specialization
INSTANCED_MESH_SHADER_HANDLE == "instanced_mesh.wgsl"

VertexAttribute(format, offset, location) ==
    [format |-> format, offset |-> offset, shader_location |-> location]

VertexBufferLayout(stride, step_mode, attributes) ==
    [array_stride |-> stride, step_mode |-> step_mode, attributes |-> attributes]

\* Mesh attributes in their order inside the mesh vertex buffer
MeshAttributes == <<"POSITION", "NORMAL", "UV_0">>
AttributeFormat(a) == IF a = "UV_0" THEN "Float32x2" ELSE "Float32x3"
AttributeSize(a) == IF a = "UV_0" THEN 8 ELSE 12

RECURSIVE SizeBefore(_, _)
SizeBefore(layout, n) ==
    IF n = 0 THEN 0
    ELSE SizeBefore(layout, n - 1)
         + (IF MeshAttributes[n] \in layout THEN AttributeSize(MeshAttributes[n]) ELSE 0)

AttributeIndex(a) == CHOOSE i \in 1..Len(MeshAttributes) : MeshAttributes[i] = a

\* MeshVertexBufferLayout::get_layout for the requested (attribute, location)
\* pairs: all present, or the first missing one as an error
RECURSIVE LayoutAttributes(_, _)
LayoutAttributes(layout, wanted) ==
    IF wanted = <<>> THEN <<>>
    ELSE <<VertexAttribute(AttributeFormat(wanted[1][1]),
                           SizeBefore(layout, AttributeIndex(wanted[1][1]) - 1),
                           wanted[1][2])>>
         \o LayoutAttributes(layout, Tail(wanted))

get_layout(layout, wanted) ==
    LET missing == {i \in 1..Len(wanted) : wanted[i][1] \notin layout}
    IN  IF missing # {}
        THEN [ok |-> FALSE,
              value |-> [tag |-> "MissingVertexAttribute",
                         name |-> wanted[CHOOSE i \in missing : \A j \in missing : i <= j][1]]]
        ELSE [ok |-> TRUE,
              value |-> VertexBufferLayout(SizeBefore(layout, Len(MeshAttributes)), "Vertex",
                                           LayoutAttributes(layout, wanted))]

\* The vertex attributes the material type asks for.  Plain bind-group data:
\* the mesh pipeline's POSITION at 0, NORMAL at 1 and UV_0 at 2 where the
\* mesh has them.  Custom bind-group data: M::specialize asks for POSITION
\* at 0 and NORMAL at shader location 10.
WantedAttributes(key, layout) ==
    IF key.bind_group_data = "custom"
    THEN <<(<<"POSITION", 0>>), (<<"NORMAL", 10>>)>>
    ELSE <<(<<"POSITION", 0>>)>>
         \o (IF "NORMAL" \in layout THEN <<(<<"NORMAL", 1>>)>> ELSE <<>>)
         \o (IF "UV_0" \in layout THEN <<(<<"UV_0", 2>>)>> ELSE <<>>)

\* self.material_pipeline.specialize(key, layout): the base material
\* specialization, with the vertex shader that from_world installed
MaterialPipeline_specialize(key, layout) ==
    LET vb == get_layout(layout, WantedAttributes(key, layout))
    IN  IF ~vb.ok THEN vb
        ELSE [ok |-> TRUE,
              value |-> [label |-> "pbr_mesh_pipeline",
                         vertex |-> [shader |-> INSTANCED_MESH_SHADER_HANDLE,
                                     buffers |-> <<vb.value>>],
                         mesh_key |-> key.mesh_key,
                         bind_group_data |-> key.bind_group_data]]

\* The per-instance vertex buffer layout that specialize appends
InstanceVertexBufferLayout ==
    VertexBufferLayout(Float32x3Size, "Instance",
                       <<VertexAttribute("Float32x3", 0, InstanceShaderLocation)>>)

\* Mutant of specialize: the instance layout goes in front of the base layouts.
specialize_prepends(key, layout) ==
    LET base == MaterialPipeline_specialize(key, layout)
    IN  IF ~base.ok THEN base
        ELSE [ok |-> TRUE,
              value |-> [base.value EXCEPT
                            !.vertex.buffers = <<InstanceVertexBufferLayout>> \o @]]

\* InstancedMeshMaterialPipeline::specialize
specialize(key, layout) ==
    LET base == MaterialPipeline_specialize(key, layout)
    IN  IF ~base.ok THEN base
        ELSE [ok |-> TRUE,
              value |-> [base.value EXCEPT
                            !.vertex.buffers = Append(@, InstanceVertexBufferLayout)]]


\* -------------------------------------------------------------- Queuing
\* render_meshes.get(handle) / render_materials.get(handle)
GetMesh(h) == IF h \in render_meshes THEN Some(GpuMesh(h)) ELSE None
GetMaterial(h) == render_materials

\* The blend flag or-ed into the mesh key
BlendFlag(alpha_mode) ==
    IF alpha_mode.tag \in {"Blend", "Premultiplied", "Add"} THEN "BLEND_PREMULTIPLIED_ALPHA"
    ELSE IF alpha_mode.tag = "Multiply" THEN "BLEND_MULTIPLY"
    ELSE "none"

\* mesh_key: topology | msaa | hdr | blend flag
MeshPipelineKey(topology, view, alpha_mode) ==
    [primitive_topology |-> topology, msaa_samples |-> MsaaSamples,
     hdr |-> ViewHdr[view], blend |-> BlendFlag(alpha_mode)]

MaterialPipelineKey(mesh, material, view) ==
    [mesh_key |-> MeshPipelineKey(mesh.primitive_topology, view,
                                  material.properties.alpha_mode),
     bind_group_data |-> material.key]

\* Mutant of PhaseOf: a mask with cutoff 0.0 is classified as opaque.
PhaseOf_zero_cutoff_opaque(alpha_mode) ==
    CASE alpha_mode.tag = "Opaque" -> "opaque"
      [] alpha_mode.tag = "Mask" /\ alpha_mode.threshold = "0.0" -> "opaque"
      [] alpha_mode.tag = "Mask" /\ alpha_mode.threshold # "0.0" -> "alpha_mask"
      [] alpha_mode.tag \in {"Blend", "Premultiplied", "Add", "Multiply"} -> "transparent"

\* The phase chosen by `match alpha_mode`
PhaseOf(alpha_mode) ==
    CASE alpha_mode.tag = "Opaque" -> "opaque"
      [] alpha_mode.tag = "Mask" -> "alpha_mask"
      [] alpha_mode.tag \in {"Blend", "Premultiplied", "Add", "Multiply"} -> "transparent"

\* draw_functions.read().id::<DrawMeshInstancedWithMaterial<M>>() of a phase
DrawFunctionId(phase) == <<phase, "DrawMeshInstancedWithMaterial">>

PhaseItem(entity, phase, pipeline, distance) ==
    [entity |-> entity, draw_function |-> DrawFunctionId(phase),
     pipeline |-> pipeline, distance |-> distance]

\* Mutant of QueueEntity: a mesh or material that is not resident is
\* reported as an error instead of being skipped.
QueueEntity_missing_is_error(view, entity, ph) ==
    LET m == GetMesh(MeshHandle[entity])
        mat == GetMaterial(MaterialHandle[entity])
    IN  IF IsSome(m) /\ IsSome(mat)
        THEN LET mesh == Unwrap(m)
                 material == Unwrap(mat)
                 alpha_mode == material.properties.alpha_mode
                 pipeline == specialize(MaterialPipelineKey(mesh, material, view), mesh.layout)
                 distance == ViewDepth[view][entity] + material.properties.depth_bias
                 phase == PhaseOf(alpha_mode)
             IN  IF ~pipeline.ok
                 THEN [phases |-> ph, error |-> Some(pipeline.value)]
                 ELSE [phases |-> [ph EXCEPT ![view][phase] =
                                      Append(@, PhaseItem(entity, phase, pipeline.value, distance))],
                       error |-> None]
        ELSE [phases |-> ph,
              error |-> Some([tag |-> "ResourceNotReady", name |-> MeshHandle[entity]])]

\* The body of the inner loop for one view and one entity of the query:
\* the phases after it, and the specialization error it unwrapped, if any
QueueEntity(view, entity, ph) ==
    LET m == GetMesh(MeshHandle[entity])
        mat == GetMaterial(MaterialHandle[entity])
    IN  IF IsSome(m) /\ IsSome(mat)
        THEN LET mesh == Unwrap(m)
                 material == Unwrap(mat)
                 alpha_mode == material.properties.alpha_mode
                 pipeline == specialize(MaterialPipelineKey(mesh, material, view), mesh.layout)
                 distance == ViewDepth[view][entity] + material.properties.depth_bias
                 phase == PhaseOf(alpha_mode)
             IN  IF ~pipeline.ok
                 THEN [phases |-> ph, error |-> Some(pipeline.value)]
                 ELSE [phases |-> [ph EXCEPT ![view][phase] =
                                      Append(@, PhaseItem(entity, phase, pipeline.value, distance))],
                       error |-> None]
        ELSE [phases |-> ph, error |-> None]

\* Mutant of QueueLoop: a specialization error is remembered and reported
\* only after the loops have run to their end.
RECURSIVE QueueLoop_defers_error(_, _, _)
QueueLoop_defers_error(work, i, ph) ==
    IF i > Len(work) THEN [phases |-> ph, panic |-> None]
    ELSE LET r == QueueEntity(work[i][1], work[i][2], ph)
             after == QueueLoop_defers_error(work, i + 1, r.phases)
         IN  IF IsSome(r.error)
             THEN [phases |-> after.phases,
                   panic |-> Some([view |-> work[i][1], entity |-> work[i][2],
                                   error |-> Unwrap(r.error),
                                   rest |-> SubSeq(work, i, Len(work))])]
             ELSE after

\* The two nested loops over `work`, the (view, entity) pairs in iteration
\* order, from pair i on.  A specialization error panics: nothing after it
\* runs.  The panic records the pairs that were not completed.
RECURSIVE QueueLoop(_, _, _)
QueueLoop(work, i, ph) ==
    IF i > Len(work) THEN [phases |-> ph, panic |-> None]
    ELSE LET r == QueueEntity(work[i][1], work[i][2], ph)
         IN  IF IsSome(r.error)
             THEN [phases |-> r.phases,
                   panic |-> Some([view |-> work[i][1], entity |-> work[i][2],
                                   error |-> Unwrap(r.error),
                                   rest |-> SubSeq(work, i, Len(work))])]
             ELSE QueueLoop(work, i + 1, r.phases)

Perms(S) == {s \in [1..Cardinality(S) -> S] : \A x \in S : \E i \in DOMAIN s : s[i] = x}

\* for view in views { for entity in query { .. } }
WorkList(vorder, eorder) ==
    [k \in 1..(Len(vorder) * Len(eorder)) |->
        <<vorder[((k - 1) \div Len(eorder)) + 1], eorder[((k - 1) % Len(eorder)) + 1]>>]

\* The entities the query matches: With<Instances>
QueryEntities == {e \in Entities : IsSome(instances[e])}

\* queue_instanced_meshes_with_material
queue_instanced_meshes_with_material(vorder, eorder, ph) ==
    QueueLoop(WorkList(vorder, eorder), 1, ph)

Resident(e) == IsSome(GetMesh(MeshHandle[e])) /\ IsSome(GetMaterial(MaterialHandle[e]))

RECURSIVE CountEntity(_, _)
CountEntity(items, e) ==
    IF items = <<>> THEN 0
    ELSE (IF items[1].entity = e THEN 1 ELSE 0) + CountEntity(Tail(items), e)

\* Phase Items of entity e in view v, over the three phases
ItemsOf(ph, v, e) ==
    CountEntity(ph[v].opaque, e) + CountEntity(ph[v].alpha_mask, e)
    + CountEntity(ph[v].transparent, e)


\* ----------------------------------------------------------------- Draw
Range(start, end) == [start |-> start, end |-> end]

Outcome(result, commands) == [result |-> result, commands |-> commands]

\* Mutant of DrawMeshInstanced_render: the instance buffer is bound before
\* the mesh is looked up.
DrawMeshInstanced_render_binds_first(mesh_handle, ib) ==
    LET m == GetMesh(mesh_handle)
    IN  IF ~IsSome(m) THEN Outcome("Failure", <<(<<"set_vertex_buffer", 1, ib.buffer>>)>>)
        ELSE LET gpu_mesh == Unwrap(m)
                 info == gpu_mesh.buffer_info
                 instance_range == Range(WNat(0), AsU32(ib.length))
             IN  Outcome("Success",
                    <<(<<"set_vertex_buffer", 1, ib.buffer>>),
                      (<<"set_vertex_buffer", 0, gpu_mesh.vertex_buffer>>)>>
                    \o (IF info.tag = "Indexed"
                        THEN <<(<<"set_index_buffer", info.buffer, 0, info.index_format>>),
                               (<<"draw_indexed", Range(0, info.count), 0, instance_range>>)>>
                        ELSE <<(<<"draw", Range(0, info.count), instance_range>>)>>))

\* DrawMeshInstanced::render: the result and the calls made on the pass
DrawMeshInstanced_render(mesh_handle, ib) ==
    LET m == GetMesh(mesh_handle)
    IN  IF ~IsSome(m) THEN Outcome("Failure", <<>>)
        ELSE LET gpu_mesh == Unwrap(m)
                 info == gpu_mesh.buffer_info
                 instance_range == Range(WNat(0), AsU32(ib.length))
             IN  Outcome("Success",
                    <<(<<"set_vertex_buffer", 0, gpu_mesh.vertex_buffer>>),
                      (<<"set_vertex_buffer", 1, ib.buffer>>)>>
                    \o (IF info.tag = "Indexed"
                        THEN <<(<<"set_index_buffer", info.buffer, 0, info.index_format>>),
                               (<<"draw_indexed", Range(0, info.count), 0, instance_range>>)>>
                        ELSE <<(<<"draw", Range(0, info.count), instance_range>>)>>))

\* SetItemPipeline: sets the item's pipeline once the pipeline cache has it
SetItemPipeline(item, ready) ==
    IF ready THEN Outcome("Success", <<(<<"set_render_pipeline", item.pipeline>>)>>)
    ELSE Outcome("Failure", <<>>)

\* SetMeshViewBindGroup<0>
SetMeshViewBindGroup(view) == Outcome("Success", <<(<<"set_bind_group", 0, view>>)>>)

\* SetMaterialBindGroup<M, 1>
SetMaterialBindGroup(material_handle) ==
    IF IsSome(GetMaterial(material_handle))
    THEN Outcome("Success", <<(<<"set_bind_group", 1, material_handle>>)>>)
    ELSE Outcome("Failure", <<>>)

\* SetMeshBindGroup<2>
SetMeshBindGroup(entity) == Outcome("Success", <<(<<"set_bind_group", 2, entity>>)>>)

\* A tuple of render commands runs them in order and stops at the first
\* failure: the outcome of the tuple from command i on
RECURSIVE RunTuple(_, _)
RunTuple(outcomes, i) ==
    IF i > Len(outcomes) THEN Outcome("Success", <<>>)
    ELSE IF outcomes[i].result = "Failure" THEN Outcome("Failure", outcomes[i].commands)
    ELSE LET rest == RunTuple(outcomes, i + 1)
         IN  Outcome(rest.result, outcomes[i].commands \o rest.commands)

\* DrawMeshInstancedWithMaterial<M>: (SetItemPipeline, SetMeshViewBindGroup<0>,
\* SetMaterialBindGroup<M, 1>, SetMeshBindGroup<2>, DrawMeshInstanced)
DrawMeshInstancedWithMaterial_render(item, view, ib, ready) ==
    RunTuple(<<SetItemPipeline(item, ready),
               SetMeshViewBindGroup(view),
               SetMaterialBindGroup(MaterialHandle[item.entity]),
               SetMeshBindGroup(item.entity),
               DrawMeshInstanced_render(MeshHandle[item.entity], ib)>>, 1)

\* What the render pass records for one Phase Item.  The item query fetches
\* Handle<Mesh> and InstanceBuffer; an entity without them runs no command.
\* reached: whether DrawMeshInstanced, the last command of the tuple, ran
\* (the three commands before it succeeded).
RenderItem(view, phase, item, ready) ==
    LET ibo == instance_buffer[item.entity]
        reached == ready /\ IsSome(GetMaterial(MaterialHandle[item.entity]))
    IN  IF ~IsSome(ibo)
        THEN [view |-> view, phase |-> phase, entity |-> item.entity,
              gpu_mesh |-> GetMesh(MeshHandle[item.entity]), length |-> None,
              reached |-> FALSE, result |-> "NoMatch", commands |-> <<>>, draw |-> <<>>]
        ELSE LET ib == Unwrap(ibo)
                 all == DrawMeshInstancedWithMaterial_render(item, view, ib, ready)
                 own == DrawMeshInstanced_render(MeshHandle[item.entity], ib)
             IN  [view |-> view, phase |-> phase, entity |-> item.entity,
                  gpu_mesh |-> GetMesh(MeshHandle[item.entity]),
                  length |-> Some(ib.length), reached |-> reached,
                  result |-> all.result, commands |-> all.commands,
                  draw |-> IF reached THEN own.commands ELSE <<>>]

RenderPhase(view, phase, ready) ==
    [i \in 1..Len(phases[view][phase]) |-> RenderItem(view, phase, phases[view][phase][i], ready)]

RenderView(view, ready) ==
    RenderPhase(view, "opaque", ready) \o RenderPhase(view, "alpha_mask", ready)
    \o RenderPhase(view, "transparent", ready)

\* ------------------------------------------------------------- actions
Running == stage # "Panicked"

\* The application inserts or replaces the Instances component of an entity
SetInstances(e, v) ==
    /\ Running
    /\ main_instances[e] # Some(v)
    /\ main_instances' = [main_instances EXCEPT ![e] = Some(v)]
    /\ UNCHANGED <<instances, instance_buffer, render_meshes, render_materials,
                   phases, stage, frame, panic, drawn, snapshot, retry>>

\* The application removes the Instances component of an entity
RemoveInstances(e) ==
    /\ Running
    /\ IsSome(main_instances[e])
    /\ main_instances' = [main_instances EXCEPT ![e] = None]
    /\ UNCHANGED <<instances, instance_buffer, render_meshes, render_materials,
                   phases, stage, frame, panic, drawn, snapshot, retry>>

\* The host makes a GPU mesh resident (its asset preparation, in Prepare)
MeshPrepared(h) ==
    /\ stage = "Prepare"
    /\ h \notin render_meshes
    /\ render_meshes' = render_meshes \cup {h}
    /\ UNCHANGED <<main_instances, instances, instance_buffer, render_materials,
                   phases, stage, frame, panic, drawn, snapshot, retry>>

\* The host drops a GPU mesh: in its asset preparation, or between queuing
\* and drawing
MeshRemoved(h) ==
    /\ stage \in {"Prepare", "Render"}
    /\ h \in render_meshes
    /\ render_meshes' = render_meshes \ {h}
    /\ UNCHANGED <<main_instances, instances, instance_buffer, render_materials,
                   phases, stage, frame, panic, drawn, snapshot, retry>>

\* The host prepares the material (again, when the asset changed)
MaterialPrepared(m) ==
    /\ stage = "Prepare"
    /\ render_materials # Some(m)
    /\ render_materials' = Some(m)
    /\ UNCHANGED <<main_instances, instances, instance_buffer, render_meshes,
                   phases, stage, frame, panic, drawn, snapshot, retry>>

\* The host drops the prepared material
MaterialRemoved ==
    /\ stage = "Prepare"
    /\ IsSome(render_materials)
    /\ render_materials' = None
    /\ UNCHANGED <<main_instances, instances, instance_buffer, render_meshes,
                   phases, stage, frame, panic, drawn, snapshot, retry>>

\* Extraction stage
Extract ==
    /\ stage = "Extract"
    /\ frame < MaxFrames
    /\ instances' = ExtractInstances(main_instances, instances)
    /\ snapshot' = main_instances
    /\ frame' = frame + 1
    /\ stage' = "Prepare"
    /\ UNCHANGED <<main_instances, instance_buffer, render_meshes, render_materials,
                   phases, panic, drawn, retry>>

\* RenderSet::Prepare
Prepare ==
    /\ stage = "Prepare"
    /\ instance_buffer' = prepare_instance_buffers(instances, instance_buffer, frame)
    /\ stage' = "Queue"
    /\ UNCHANGED <<main_instances, instances, render_meshes, render_materials,
                   phases, frame, panic, drawn, snapshot, retry>>

RetryAfter(ph) ==
    [e \in Entities |->
        IF e \in QueryEntities /\ ~Resident(e) THEN "skipped"
        ELSE IF retry[e] = "skipped" /\ e \in QueryEntities
                /\ \A v \in Views : ItemsOf(ph, v, e) = 1 THEN "requeued"
        ELSE "none"]

\* RenderSet::Queue
Queue ==
    /\ stage = "Queue"
    /\ \E vorder \in Perms(Views), eorder \in Perms(QueryEntities) :
          LET r == queue_instanced_meshes_with_material(vorder, eorder, phases)
          IN  /\ phases' = r.phases
              /\ panic' = r.panic
              /\ stage' = IF IsSome(r.panic) THEN "Panicked" ELSE "Render"
              /\ retry' = RetryAfter(r.phases)
    /\ UNCHANGED <<main_instances, instances, instance_buffer, render_meshes,
                   render_materials, frame, drawn, snapshot>>

\* RenderSet::Render: every Phase Item of every view runs its draw function.
\* ready: whether the pipeline cache has compiled the specialized pipelines.
Render ==
    /\ stage = "Render"
    /\ \E ready \in BOOLEAN :
          drawn' = RenderView("v1", ready) \o RenderView("v2", ready)
    /\ stage' = "Cleanup"
    /\ UNCHANGED <<main_instances, instances, instance_buffer, render_meshes,
                   render_materials, phases, frame, panic, snapshot, retry>>

\* RenderSet::Cleanup: the render world's entities and the phases are cleared
Cleanup ==
    /\ stage = "Cleanup"
    /\ instances' = [e \in Entities |-> None]
    /\ instance_buffer' = [e \in Entities |-> None]
    /\ phases' = EmptyPhases
    /\ drawn' = <<>>
    /\ snapshot' = [e \in Entities |-> None]
    /\ stage' = "Extract"
    /\ UNCHANGED <<main_instances, render_meshes, render_materials, frame, panic, retry>>

Next ==
    \/ \E e \in Entities : \E v \in CollectionsOf(e) : SetInstances(e, v)
    \/ \E e \in Entities : RemoveInstances(e)
    \/ \E h \in MeshHandles : MeshPrepared(h)
    \/ \E h \in MeshHandles : MeshRemoved(h)
    \/ \E m \in PreparedMaterials : MaterialPrepared(m)
    \/ MaterialRemoved
    \/ Extract
    \/ Prepare
    \/ Queue
    \/ Render
    \/ Cleanup

Spec == Init /\ [][Next]_vars


\* ============================================================== claims
\* The Queue stage ran in this step (it ended in Render or in the panic).
QueueStep == stage = "Queue" /\ stage' # "Queue"

\* The Extraction stage ran in this step.
ExtractStep == stage = "Extract" /\ stage' = "Prepare"

\* All Phase Items queued, with their view and phase
QueuedItems(ph) ==
    {<<v, p, ph[v][p][i]>> : <<v, p, i>> \in
        {t \in Views \X {"opaque", "alpha_mask", "transparent"} \X (1..Cardinality(Entities)) :
            t[3] <= Len(ph[t[1]][t[2]])}}

DrawnRecords == {drawn[i] : i \in DOMAIN drawn}

\* C1: once Buffer Preparation has run in a frame, every render-side entity
\* that carries an Instance Collection of length N carries an InstanceBuffer
\* built in this frame whose stored length is N and whose buffer is 12 * N
\* bytes, the empty collection included.
C1_PreparedBufferMatchesCollection ==
    stage \in {"Queue", "Render", "Cleanup", "Panicked"} =>
        \A e \in Entities :
            IsSome(instances[e]) =>
                /\ IsSome(instance_buffer[e])
                /\ Unwrap(instance_buffer[e]).length = VecLen(Unwrap(instances[e]))
                /\ Unwrap(instance_buffer[e]).buffer.size
                       = WMulNat(VecLen(Unwrap(instances[e])), 12)
                /\ Unwrap(instance_buffer[e]).built_in = frame

\* C1 witness: after Prepare, e1 holds the empty collection with a buffer of
\* 0 bytes and e2 holds MaxLen records with a buffer of 12 * MaxLen bytes.
C1_Witness ==
    /\ stage = "Queue"
    /\ instances["e1"] = Some(VecOf(0))
    /\ IsSome(instance_buffer["e1"])
    /\ WIsZero(Unwrap(instance_buffer["e1"]).buffer.size)
    /\ instances["e2"] = Some(VecOf(MaxLen))
    /\ IsSome(instance_buffer["e2"])
    /\ Unwrap(instance_buffer["e2"]).buffer.size = WNat(12 * MaxLen)

\* The phase the claim assigns to an alpha mode
ClaimedPhase(alpha_mode) ==
    IF alpha_mode.tag = "Opaque" THEN "opaque"
    ELSE IF alpha_mode.tag = "Mask" THEN "alpha_mask"
    ELSE "transparent"

\* Entity e has exactly one Phase Item in view v of ph, in the claimed phase
OneItemInClaimedPhase(ph, v, e, alpha_mode) ==
    \A p \in {"opaque", "alpha_mask", "transparent"} :
        CountEntity(ph[v][p], e) = IF p = ClaimedPhase(alpha_mode) THEN 1 ELSE 0

ExpectedDraw(m, ib) ==
    <<(<<"set_vertex_buffer", 0, m.vertex_buffer>>), (<<"set_vertex_buffer", 1, ib.buffer>>)>>
    \o (IF m.buffer_info.tag = "Indexed"
        THEN <<(<<"set_index_buffer", m.buffer_info.buffer, 0, m.buffer_info.index_format>>),
               (<<"draw_indexed", [start |-> 0, end |-> m.buffer_info.count], 0,
                  [start |-> WNat(0), end |-> ib.length]>>)>>
        ELSE <<(<<"draw", [start |-> 0, end |-> m.buffer_info.count],
                  [start |-> WNat(0), end |-> ib.length]>>)>>)

\* C3 as stated: for a Phase Item whose GPU mesh is resident,
\* DrawMeshInstanced::render binds the vertex buffer at slot 0 and the
\* instance buffer at slot 1 and issues exactly one draw over the full index
\* or vertex range with instance range [0, L), L the stored element count.
C3_OneDrawOverStoredLength ==
    \A r \in DrawnRecords :
        (r.reached /\ IsSome(r.gpu_mesh)) =>
            r.draw = ExpectedDraw(Unwrap(r.gpu_mesh), Unwrap(instance_buffer[r.entity]))

C5_Original ==
    \A r \in DrawnRecords :
        ~IsSome(r.gpu_mesh) => (r.result = "Failure" /\ r.commands = <<>>)

\* C5 amended: when the GPU mesh is absent at draw time the registered draw
\* command reports failure and DrawMeshInstanced issues nothing: no buffer is
\* bound and no draw call is made; the only commands issued for the item are
\* the pipeline and bind-group settings of the commands that precede it.
C5_Amended ==
    \A r \in DrawnRecords :
        ~IsSome(r.gpu_mesh) =>
            /\ r.result = "Failure"
            /\ r.draw = <<>>
            /\ \A k \in DOMAIN r.commands :
                  r.commands[k][1] \in {"set_render_pipeline", "set_bind_group"}

\* C5 witness: an item whose mesh vanished after queuing reached
\* DrawMeshInstanced.
C5_Witness ==
    \E r \in DrawnRecords : ~IsSome(r.gpu_mesh) /\ r.reached /\ r.result = "Failure"

\* C6: when pipeline specialization fails for an entity in a view, the Queue
\* stage ends there: the failing (view, entity) pair and every pair that was
\* to be processed after it have no Phase Item.
C6_SpecializationFailureIsFatal ==
    IsSome(panic) =>
        LET p == Unwrap(panic)
        IN  /\ stage = "Panicked"
            /\ p.error.tag = "MissingVertexAttribute"
            /\ p.rest[1] = <<p.view, p.entity>>
            /\ \A k \in DOMAIN p.rest : ItemsOf(phases, p.rest[k][1], p.rest[k][2]) = 0

\* C6 witness: the stage failed on an entity with another, resident entity of
\* the same view still to be processed after it.
C6_Witness ==
    /\ IsSome(panic)
    /\ \E k \in DOMAIN Unwrap(panic).rest :
          /\ k > 1
          /\ Unwrap(panic).rest[k][1] = Unwrap(panic).view
          /\ Resident(Unwrap(panic).rest[k][2])

\* The base material specialization for entity e in view v
BaseFor(v, e) ==
    MaterialPipeline_specialize(
        MaterialPipelineKey(GpuMesh(MeshHandle[e]), Unwrap(render_materials), v),
        GpuMesh(MeshHandle[e]).layout)

\* C7: the pipeline of every Phase Item is the base descriptor with exactly
\* one vertex buffer layout appended at the end (stride 12, per-instance, one
\* Float32x3 attribute at offset 0) and everything else as the base produced
\* it; a failure of the base is passed on unchanged.
C7_SpecializeAppendsOneLayout ==
    [][QueueStep =>
        /\ \A t \in QueuedItems(phases') :
              LET base == BaseFor(t[1], t[3].entity)
                  bufs == t[3].pipeline.vertex.buffers
                  last == bufs[Len(bufs)]
              IN  /\ base.ok
                  /\ Len(bufs) = Len(base.value.vertex.buffers) + 1
                  /\ SubSeq(bufs, 1, Len(bufs) - 1) = base.value.vertex.buffers
                  /\ [t[3].pipeline EXCEPT !.vertex.buffers = base.value.vertex.buffers]
                         = base.value
                  /\ last.array_stride = 12
                  /\ last.step_mode = "Instance"
                  /\ Len(last.attributes) = 1
                  /\ last.attributes[1].format = "Float32x3"
                  /\ last.attributes[1].offset = 0
        /\ IsSome(panic') =>
              LET base == BaseFor(Unwrap(panic').view, Unwrap(panic').entity)
              IN  ~base.ok /\ Unwrap(panic').error = base.value]_vars

\* C7 witness: a Queue stage in which one specialization succeeded (e1 has an
\* item) and a later one failed.
C7_Witness ==
    /\ IsSome(panic)
    /\ \E v \in Views : ItemsOf(phases, v, "e1") = 1

\* C8 as stated: in every specialized descriptor the shader location of the
\* appended per-instance attribute differs from the shader location of every
\* attribute the base specialization produced.
C8_InstanceLocationDistinct ==
    \A t \in QueuedItems(phases) :
        LET bufs == t[3].pipeline.vertex.buffers
            inst == bufs[Len(bufs)].attributes[1].shader_location
        IN  \A b \in 1..(Len(bufs) - 1) : \A a \in DOMAIN bufs[b].attributes :
                bufs[b].attributes[a].shader_location # inst

\* C9: Extraction gives every render-side mirror the collection of its
\* simulation-side entity, equal element by element and in the same order,
\* gives none to the mirror of an entity without a collection, and leaves
\* the simulation-side collections unchanged.
C9_ExtractionCopies ==
    [][ExtractStep =>
        /\ main_instances' = main_instances
        /\ \A e \in Entities :
              IF IsSome(main_instances[e])
              THEN /\ IsSome(instances'[e])
                   /\ LET a == Unwrap(main_instances[e])
                          b == Unwrap(instances'[e])
                      IN  /\ Len(b.head) = Len(a.head)
                          /\ \A i \in 1..Len(a.head) : b.head[i] = a.head[i]
                          /\ b.pad = a.pad
              ELSE instances'[e] = None]_vars

\* C9 witness: in the second frame e1's mirror holds the MaxLen collection
\* and e2, whose collection the first frame had extracted, has none.
C9_Witness ==
    /\ stage = "Prepare"
    /\ frame = 2
    /\ instances["e1"] = Some(VecOf(MaxLen))
    /\ instances["e2"] = None
    /\ retry["e2"] = "skipped"

\* The instance range of a draw call
InstanceRangeOf(cmd) == IF cmd[1] = "draw_indexed" THEN cmd[4] ELSE cmd[3]

\* C10 as stated: the instance count of every draw call of a frame is the
\* length of the entity's simulation-side collection as this frame's
\* Extraction saw it, and every Phase Item queued in the frame refers to an
\* entity holding an InstanceBuffer built in this frame.
C10_DrawUsesThisFramesSnapshot ==
    /\ \A r \in DrawnRecords :
          r.draw # <<>> =>
              /\ IsSome(snapshot[r.entity])
              /\ InstanceRangeOf(r.draw[Len(r.draw)])
                     = [start |-> WNat(0), end |-> VecLen(Unwrap(snapshot[r.entity]))]
    /\ \A t \in QueuedItems(phases) :
          /\ IsSome(instance_buffer[t[3].entity])
          /\ Unwrap(instance_buffer[t[3].entity]).built_in = frame

====
